---- MODULE Spec2Model ----
(***************************************************************************)
(* Model of evm/src/fuzz/strategies/param.rs: the two recursive builders   *)
(* fuzz_param and fuzz_param_from_state, the strategies they return, and   *)
(* the values those strategies produce when the engine draws from them.    *)
(* A U256 / [u8; 32] is a sequence of 32 bytes, most significant first.    *)
(***************************************************************************)
EXTENDS Integers, Sequences, FiniteSets

\* ------------------------------------------------------------------ bounds
MaxCorpus == 2
MaxSeed == 5
MaxFan == 3

\* --------------------------------------------------------------- constants
MAX_ARRAY_LEN == 256

\* ------------------------------------------------------- bytes and U256
Pow2Int(e) == 2 ^ e

ZeroWord == [i \in 1..32 |-> 0]

\* value[start..] on a byte slice (start counted from 0)
SliceFrom(value, start) == [i \in 1..(Len(value) - start) |-> value[start + i]]

\* U256::from(2).pow(U256::from(e)) for e < 256
Pow2(e) == [i \in 1..32 |-> IF 32 - i = e \div 8 THEN Pow2Int(e % 8) ELSE 0]

\* x % U256::from(2).pow(U256::from(e))
RemPow2(x, e) ==
    [i \in 1..32 |->
        LET lowBit == 8 * (32 - i) IN
        IF lowBit + 8 <= e THEN x[i]
        ELSE IF lowBit >= e THEN 0
        ELSE x[i] % Pow2Int(e - lowBit)]

\* a.overflowing_sub(b).0 : subtraction modulo 2^256, byte by byte with borrow
OverflowingSub(a, b) ==
    LET borrow[i \in 1..33] ==
            IF i = 33 THEN 0
            ELSE IF a[i] - b[i] - borrow[i + 1] < 0 THEN 1 ELSE 0
    IN [i \in 1..32 |-> (a[i] - b[i] - borrow[i + 1] + 256) % 256]

\* ------------------------------------------------------------- ParamType
Address == [t |-> "Address"]
Bytes == [t |-> "Bytes"]
IntN(n) == [t |-> "Int", n |-> n]
UintN(n) == [t |-> "Uint", n |-> n]
Bool == [t |-> "Bool"]
String == [t |-> "String"]
Array(p) == [t |-> "Array", param |-> p]
FixedBytes(size) == [t |-> "FixedBytes", size |-> size]
FixedArray(p, size) == [t |-> "FixedArray", param |-> p, size |-> size]
Tuple(ps) == [t |-> "Tuple", params |-> ps]

\* ------------------------------------------------- construction outcomes
Panic == [k |-> "panic"]
IsPanic(s) == s.k = "panic"

\* super::UintStrategy::new(bits, vec![])
UintStrategy_new(bits) ==
    IF bits % 8 = 0 /\ bits >= 8 /\ bits <= 256
    THEN [k |-> "uint_strategy", bits |-> bits]
    ELSE Panic

\* match n / 8 { 32 => .., y @ 1..=31 => .., _ => panic!(..) } of fuzz_param
IntStrategy(n) ==
    LET y == n \div 8 IN
    IF y = 32 THEN [k |-> "any_int256"]
    ELSE IF y \in 1..31 THEN [k |-> "any_int", y |-> y]
    ELSE Panic

\* proptest::collection::vec(element, lo..hi).prop_map(wrap); the element
\* strategy is built first, and vec rejects an empty size range lo..hi
VecStrategy(element, lo, hi, wrap) ==
    IF IsPanic(element) THEN Panic
    ELSE IF hi <= lo THEN Panic
    ELSE [k |-> "vec", element |-> element, lo |-> lo, hi |-> hi, wrap |-> wrap]

\* elements.collect::<Vec<_>>().prop_map(wrap)
SeqStrategy(elements, wrap) ==
    IF \E i \in DOMAIN elements : IsPanic(elements[i]) THEN Panic
    ELSE [k |-> "seq", elements |-> elements, wrap |-> wrap]

RECURSIVE fuzz_param(_)
fuzz_param(param) ==
    CASE param.t = "Address" -> [k |-> "any_address"]
      [] param.t = "Bytes" -> [k |-> "any_bytes"]
      [] param.t = "Int" -> IntStrategy(param.n)
      [] param.t = "Uint" -> UintStrategy_new(param.n)
      [] param.t = "Bool" -> [k |-> "any_bool"]
      [] param.t = "String" -> [k |-> "any_string"]
      [] param.t = "Array" ->
            VecStrategy(fuzz_param(param.param), 0, MAX_ARRAY_LEN, "Array")
      [] param.t = "FixedBytes" -> [k |-> "any_fixed_bytes", size |-> param.size]
      [] param.t = "FixedArray" ->
            SeqStrategy([i \in 1..param.size |-> fuzz_param(param.param)], "FixedArray")
      [] param.t = "Tuple" ->
            SeqStrategy([i \in 1..Len(param.params) |-> fuzz_param(param.params[i])],
                        "Tuple")

\* match n / 8 of fuzz_param_from_state, ParamType::Int
StateIntStrategy(n, state_len) ==
    LET y == n \div 8 IN
    IF y = 32 THEN [k |-> "state_int256", state_len |-> state_len]
    ELSE IF y \in 1..31 THEN [k |-> "state_int", y |-> y, state_len |-> state_len]
    ELSE Panic

\* match n / 8 of fuzz_param_from_state, ParamType::Uint
StateUintStrategy(n, state_len) ==
    LET y == n \div 8 IN
    IF y = 32 THEN [k |-> "state_uint256", state_len |-> state_len]
    ELSE IF y \in 1..31 THEN [k |-> "state_uint", y |-> y, state_len |-> state_len]
    ELSE Panic

RECURSIVE fuzz_param_from_state(_, _)
fuzz_param_from_state(param, state) ==
    LET state_len == Len(state) IN
    CASE param.t = "Address" -> [k |-> "state_address", state_len |-> state_len]
      [] param.t = "Bytes" -> [k |-> "state_bytes", state_len |-> state_len]
      [] param.t = "Int" -> StateIntStrategy(param.n, state_len)
      [] param.t = "Uint" -> StateUintStrategy(param.n, state_len)
      [] param.t = "Bool" -> [k |-> "state_bool", state_len |-> state_len]
      [] param.t = "String" -> [k |-> "state_string", state_len |-> state_len]
      [] param.t = "Array" ->
            VecStrategy(fuzz_param_from_state(param.param, state), 0, MAX_ARRAY_LEN,
                        "Array")
      [] param.t = "FixedBytes" ->
            [k |-> "state_fixed_bytes", size |-> param.size, state_len |-> state_len]
      [] param.t = "FixedArray" ->
            VecStrategy(fuzz_param_from_state(param.param, state), 0, param.size,
                        "FixedArray")
      [] param.t = "Tuple" ->
            SeqStrategy([i \in 1..Len(param.params) |->
                            fuzz_param_from_state(param.params[i], state)], "Tuple")
\* ------------------------------------------------------- the random source
\* The engine's random stream: a draw started with seed s reads the cyclic
\* table Raws from offset s; the node at position pos reads Rand(s, pos).
Raws == <<0, 255, 1, 256, 2, 3, 5>>

Rand(seed, pos) == Raws[((seed + pos) % Len(Raws)) + 1]

\* position of the j-th child (j >= 1) of the node at position pos: the
\* children of one node read the next MaxFan positions of the stream in turn
Child(pos, j) == pos + 1 + (j % MaxFan)

\* the 32-byte words the corpus and any::<[u8; 32]>() range over
Ramp == [i \in 1..32 |-> i]
WordPool ==
    << ZeroWord,
       [ZeroWord EXCEPT ![32] = 1],
       [i \in 1..32 |-> 255],
       Ramp,
       [ZeroWord EXCEPT ![31] = 15, ![32] = 255],
       [ZeroWord EXCEPT ![1] = 128, ![31] = 128] >>

Words == {WordPool[i] : i \in DOMAIN WordPool}

\* any::<[u8; 32]>()
Any32(raw) == WordPool[(raw % Len(WordPool)) + 1]

\* any::<[u8; 20]>()
Any20(raw) == SubSeq(Any32(raw), 1, 20)

\* any::<Vec<u8>>()
AnyVecU8(raw) == SubSeq(Any32(raw), 1, raw % 33)

\* any::<u8>()
AnyU8(raw) == Any32(raw)[(raw % 32) + 1]

\* any::<bool>()
AnyBool(raw) == raw % 2 = 1

\* ------------------------------------------------- per-type conversions
\* Address::from_slice(&value[12..])
AddressFromWord(value) == SliceFrom(value, 12)

\* variant of BoolFromWord: any non-zero trailing byte counts as true
BoolFromWord_NonZero(value) == value[32] /= 0

\* value[31] == 1
BoolFromWord(value) == value[32] = 1

\* variant of SignedFromWord: the reduced word is not recentred
SignedFromWord_NoRecentre(value, y) == RemPow2(value, y * 8)

\* uint % 2^(y*8), then overflowing_sub(2^(y*8 - 1)), read as I256::from_raw
SignedFromWord(value, y) ==
    LET uint == RemPow2(value, y * 8)
        max_int_plus1 == Pow2(y * 8 - 1)
    IN OverflowingSub(uint, max_int_plus1)

\* U256::from(value) % 2^(y*8)
UnsignedFromWord(value, y) == RemPow2(value, y * 8)

\* variant of IndexIndex: the index may reach size itself
IndexIndex_Inclusive(raw, size) == raw % (size + 1)

\* index.index(state_len) for state_len > 0
IndexIndex(raw, size) == raw % size

\* variant of SampleSize: the upper end of the range is included
SampleSize_Inclusive(raw, lo, hi) == lo + (raw % (hi - lo + 1))

\* the length proptest::collection::vec samples from lo..hi
SampleSize(raw, lo, hi) == lo + (raw % (hi - lo))

\* ------------------------------------------------------- sampled tokens
\* A Token is [t, v]; a leaf also remembers in src what it was made from:
\* the corpus entry it fetched, or the 32-byte base draw.
\* a panic while sampling, with the operation that panicked
Fault(why) == [t |-> "Fault", why |-> why]

Composite == {"Array", "FixedArray", "Tuple"}

Leaf(t, v) == [t |-> t, v |-> v, src |-> [kind |-> "none"]]

\* a random leaf built on a 32-byte base draw x
FromBase(x, t, v) == [t |-> t, v |-> v, src |-> [kind |-> "base", value |-> x]]

\* a corpus leaf: the word fetched at sel.index, converted to v
FromValue(sel, state_len, t, v) ==
    [t |-> t, v |-> v,
     src |-> [kind |-> "fetch", state_len |-> state_len, index |-> sel.index,
              value |-> sel.value]]

\* variant of CollectTokens: the children come out in reverse order
CollectTokens_Reversed(rs) ==
    [j \in DOMAIN rs |-> rs[Cardinality(DOMAIN rs) + 1 - j]]

\* the tokens of the sampled children, in order
CollectTokens(rs) == [j \in DOMAIN rs |-> rs[j]]

\* Token::Array / Token::FixedArray / Token::Tuple over the sampled children
Combine(rs, wrap) == [t |-> wrap, v |-> CollectTokens(rs)]

\* value: index.index(state_len), then *s.borrow().iter().nth(index).unwrap()
SelectValue(state_len, s, raw) ==
    IF state_len = 0 THEN [ok |-> FALSE, why |-> "index"]
    ELSE LET index == IndexIndex(raw, state_len) IN
         IF index >= Len(s) THEN [ok |-> FALSE, why |-> "unwrap"]
         ELSE [ok |-> TRUE, index |-> index, value |-> s[index + 1]]

\* Token::FixedBytes(value[32 - size..].to_vec()); 32 - size underflows past 32
FixedBytesFromWord(sel, state_len, size) ==
    IF size > 32 THEN Fault("slice")
    ELSE FromValue(sel, state_len, "FixedBytes", SliceFrom(sel.value, 32 - size))

\* one value drawn from strategy strat, the corpus holding s at that moment;
\* a panic anywhere below shows as a Fault in the tree
RECURSIVE Sample(_, _, _, _)
Sample(strat, s, seed, pos) ==
    LET raw == Rand(seed, pos)
        k == strat.k
    IN
    CASE k = "any_address" -> Leaf("Address", Any20(raw))
      [] k = "any_bytes" -> Leaf("Bytes", AnyVecU8(raw))
      [] k = "any_int256" -> FromBase(Any32(raw), "Int", Any32(raw))
      [] k = "any_int" -> FromBase(Any32(raw), "Int", SignedFromWord(Any32(raw), strat.y))
      [] k = "uint_strategy" ->
            FromBase(Any32(raw), "Uint", RemPow2(Any32(raw), strat.bits))
      [] k = "any_bool" -> Leaf("Bool", AnyBool(raw))
      [] k = "any_string" -> Leaf("String", AnyVecU8(raw))
      [] k = "any_fixed_bytes" ->
            Leaf("FixedBytes", [i \in 1..strat.size |-> AnyU8(Rand(seed, Child(pos, i)))])
      [] k = "vec" ->
            Combine([j \in 1..SampleSize(raw, strat.lo, strat.hi) |->
                        Sample(strat.element, s, seed, Child(pos, j))],
                    strat.wrap)
      [] k = "seq" ->
            Combine([j \in 1..Len(strat.elements) |->
                        Sample(strat.elements[j], s, seed, Child(pos, j))],
                    strat.wrap)
      [] OTHER ->
            LET sel == SelectValue(strat.state_len, s, raw)
                L == strat.state_len
            IN
            IF ~sel.ok THEN Fault(sel.why)
            ELSE CASE k = "state_address" ->
                        FromValue(sel, L, "Address", AddressFromWord(sel.value))
                   [] k = "state_bytes" -> FromValue(sel, L, "Bytes", sel.value)
                   [] k = "state_int256" -> FromValue(sel, L, "Int", sel.value)
                   [] k = "state_int" ->
                        FromValue(sel, L, "Int", SignedFromWord(sel.value, strat.y))
                   [] k = "state_uint256" -> FromValue(sel, L, "Uint", sel.value)
                   [] k = "state_uint" ->
                        FromValue(sel, L, "Uint", UnsignedFromWord(sel.value, strat.y))
                   [] k = "state_bool" ->
                        FromValue(sel, L, "Bool", BoolFromWord(sel.value))
                   [] k = "state_string" -> FromValue(sel, L, "String", sel.value)
                   [] k = "state_fixed_bytes" -> FixedBytesFromWord(sel, L, strat.size)

\* a panic while sampling any part of the value
RECURSIVE HasFault(_)
HasFault(tok) ==
    \/ tok.t = "Fault"
    \/ /\ tok.t \in Composite
       /\ \E j \in DOMAIN tok.v : HasFault(tok.v[j])

\* children are sampled in order, so the first panic is the one that unwinds
RECURSIVE FirstFault(_)
FirstFault(tok) ==
    IF tok.t = "Fault" THEN tok
    ELSE LET j == CHOOSE j \in DOMAIN tok.v :
                    /\ HasFault(tok.v[j])
                    /\ \A i \in DOMAIN tok.v : i < j => ~HasFault(tok.v[i])
         IN FirstFault(tok.v[j])

\* what the engine gets from one draw: the value, or the panic
NewTree(strat, s, seed) ==
    LET tok == Sample(strat, s, seed, 0) IN
    IF HasFault(tok) THEN FirstFault(tok) ELSE tok

\* ------------------------------------------------------------ the inputs
Widths == {0, 4, 8, 12, 16, 24, 128, 248, 256, 257, 264}

Sizes == {0, 1, 20, 32, 33}

LeafShapes ==
    {Address, Bytes, Bool, String}
        \cup {IntN(w) : w \in Widths} \cup {UintN(w) : w \in Widths}
        \cup {FixedBytes(size) : size \in Sizes}

CompositeShapes ==
    { Array(Bool), Array(Array(Bool)), Array(UintN(8)), Array(IntN(4)),
      Array(Tuple(<<Bool, UintN(16)>>)),
      FixedArray(Bool, 0), FixedArray(Bool, 3), FixedArray(Array(Address), 2),
      FixedArray(IntN(4), 0),
      Tuple(<<>>),
      Tuple(<<Address, Array(Bool), Tuple(<<Bool, IntN(8)>>), FixedBytes(4)>>),
      Tuple(<<FixedArray(Bool, 2), String>>) }

Shapes == LeafShapes \cup CompositeShapes

Seeds == 0..MaxSeed

\* the words the fuzz campaign may add to the corpus later on
NewWords == {Ramp, [i \in 1..32 |-> 255]}

\* ----------------------------------------------------------------- state
VARIABLES
    corpus,     \* EvmFuzzState: the shared collection of 32-byte words
    mode,       \* which builder made the strategy: "none", "random", "state"
    param,      \* the ParamType handed to the builder
    strategy,   \* the strategy the builder returned, or Panic
    snapshot,   \* the corpus as it was when the builder ran
    status,     \* "idle", "built", "construct_panic", "drawn", "draw_panic"
    seed,       \* the seed of the last draw
    token       \* the value of the last draw, or the Fault it ended in

vars == <<corpus, mode, param, strategy, snapshot, status, seed, token>>

NoToken == [t |-> "None"]

Init ==
    /\ corpus \in {<<>>} \cup {<<w>> : w \in Words}
    /\ mode = "none"
    /\ param = [t |-> "None"]
    /\ strategy = [k |-> "none"]
    /\ snapshot = <<>>
    /\ status = "idle"
    /\ seed = 0
    /\ token = NoToken

Built(strat) == IF IsPanic(strat) THEN "construct_panic" ELSE "built"

\* a caller builds a random strategy for shape p
BuildRandom(p) ==
    /\ mode' = "random"
    /\ param' = p
    /\ strategy' = fuzz_param(p)
    /\ snapshot' = <<>>
    /\ status' = Built(strategy')
    /\ seed' = 0
    /\ token' = NoToken
    /\ UNCHANGED corpus

\* a caller builds a corpus-biased strategy for shape p over the shared corpus
BuildFromState(p) ==
    /\ mode' = "state"
    /\ param' = p
    /\ strategy' = fuzz_param_from_state(p, corpus)
    /\ snapshot' = corpus
    /\ status' = Built(strategy')
    /\ seed' = 0
    /\ token' = NoToken
    /\ UNCHANGED corpus

\* the engine draws one value from the strategy
Draw(sd) ==
    /\ status \in {"built", "drawn"}
    /\ seed' = sd
    /\ token' = NewTree(strategy, corpus, sd)
    /\ status' = IF token'.t = "Fault" THEN "draw_panic" ELSE "drawn"
    /\ UNCHANGED <<corpus, mode, param, strategy, snapshot>>

\* the fuzz campaign records one more observed word
AppendWord(w) ==
    /\ Len(corpus) < MaxCorpus
    /\ corpus' = Append(corpus, w)
    /\ UNCHANGED <<mode, param, strategy, snapshot, status, seed, token>>

Next ==
    \/ \E p \in Shapes : BuildRandom(p)
    \/ \E p \in Shapes : BuildFromState(p)
    \/ \E sd \in Seeds : Draw(sd)
    \/ \E w \in NewWords : AppendWord(w)

Spec == Init /\ [][Next]_vars
\* ============================================================== properties
\* the corpus entries a sampled value was made from
RECURSIVE Fetches(_)
Fetches(tok) ==
    IF tok.t \in Composite THEN UNION {Fetches(tok.v[j]) : j \in DOMAIN tok.v}
    ELSE IF tok.t = "Fault" THEN {}
    ELSE IF tok.src.kind = "fetch" THEN {tok.src} ELSE {}

\* the corpus lengths captured by the leaves of a strategy
RECURSIVE StateLens(_)
StateLens(strat) ==
    IF strat.k = "vec" THEN StateLens(strat.element)
    ELSE IF strat.k = "seq"
         THEN UNION {StateLens(strat.elements[j]) : j \in DOMAIN strat.elements}
    ELSE IF "state_len" \in DOMAIN strat THEN {strat.state_len} ELSE {}

\* a whole number of bytes between 8 and 256 bits
SupportedWidth(w) == w % 8 = 0 /\ w >= 8 /\ w <= 256

RECURSIVE HasUnsupportedWidth(_)
HasUnsupportedWidth(shape) ==
    CASE shape.t \in {"Int", "Uint"} -> ~SupportedWidth(shape.n)
      [] shape.t \in {"Array", "FixedArray"} -> HasUnsupportedWidth(shape.param)
      [] shape.t = "Tuple" ->
            \E j \in DOMAIN shape.params : HasUnsupportedWidth(shape.params[j])
      [] OTHER -> FALSE

\* the number held in the last n bytes of x (n <= 3)
RECURSIVE LowNat(_, _)
LowNat(x, n) == IF n = 0 THEN 0 ELSE x[32] + 256 * LowNat(<<0>> \o SubSeq(x, 1, 31), n - 1)

\* bit w-1 of the 256-bit value v
SignBit(v, w) == (v[32 - ((w - 1) \div 8)] \div Pow2Int((w - 1) % 8)) % 2 = 1

\* v, read as a two's-complement 256-bit integer, lies in [-2^(w-1), 2^(w-1))
InSignedRange(v, w) ==
    \A i \in 1..(32 - (w \div 8)) : v[i] = IF SignBit(v, w) THEN 255 ELSE 0

\* the low w bits of v are those of x - 2^(w-1), i.e. x with bit w-1 flipped
RecentredLowBits(v, x, w) ==
    LET top == 33 - (w \div 8) IN
    /\ v[top] = (x[top] + 128) % 256
    /\ \A i \in (top + 1)..32 : v[i] = x[i]

\* for w <= 24 the same, computed on integers
RecentredValue(v, x, w) ==
    w <= 24 =>
        LET n == w \div 8
            signed == LowNat(v, n) - (IF SignBit(v, w) THEN Pow2Int(w) ELSE 0)
        IN /\ signed = (LowNat(x, n) % Pow2Int(w)) - Pow2Int(w - 1)
           /\ signed >= 0 - Pow2Int(w - 1)
           /\ signed < Pow2Int(w - 1)

\* C1: every draw from a FixedArray(element, size) strategy, random or
\* corpus-biased, is a sequence of exactly size elements.
C1_FixedArrayLength ==
    (param.t = "FixedArray" /\ status = "drawn") => Len(token.v) = param.size

\* C2: an Int or Uint shape whose width is not a multiple of 8 within
\* [8, 256] makes both builders fail while the strategy is constructed.
C2_UnsupportedWidthFails ==
    (mode /= "none" /\ param.t \in {"Int", "Uint"} /\ ~SupportedWidth(param.n))
        => status = "construct_panic"

\* C3: fuzz_param_from_state over an empty corpus fails at construction, for
\* every shape; no strategy is returned and no draw is the first to fail.
C3_EmptyCorpusFails ==
    (mode = "state" /\ Len(snapshot) = 0) => status = "construct_panic"

\* C4: for Int(w), w a multiple of 8 in [8, 248], in both builds every drawn
\* value is (word mod 2^w) - 2^(w-1) and lies in [-2^(w-1), 2^(w-1)), the
\* word being the 256-bit base draw or the fetched corpus word.
C4_SignedRange ==
    (param.t = "Int" /\ SupportedWidth(param.n) /\ param.n <= 248 /\ status = "drawn")
        => /\ token.t = "Int"
           /\ InSignedRange(token.v, param.n)
           /\ RecentredLowBits(token.v, token.src.value, param.n)
           /\ RecentredValue(token.v, token.src.value, param.n)

C4_Witness ==
    /\ mode = "state" /\ param = IntN(248) /\ status = "drawn"
    /\ token.v[1] = 255 /\ token.src.value = ZeroWord

\* C5: for every Uint(w) the corpus-biased build accepts, every drawn value
\* is below 2^w; it is the fetched word itself for w = 256 and the word
\* modulo 2^w for w < 256.
C5_UnsignedValue ==
    (mode = "state" /\ param.t = "Uint" /\ status = "drawn" /\ param.n <= 256)
        => /\ token.t = "Uint"
           /\ token.v = RemPow2(token.src.value, param.n)

\* C6: over a corpus of exactly one word, every draw of a leaf shape is that
\* word converted per type: Address its last 20 bytes, Bytes all 32 bytes,
\* Bool whether the last byte is 1, FixedBytes(size <= 32) its last size bytes.
C6_SingleWord ==
    (/\ mode = "state" /\ Len(corpus) = 1 /\ snapshot = corpus
     /\ status \in {"drawn", "draw_panic"}
     /\ \/ param.t \in {"Address", "Bytes", "Bool"}
        \/ (param.t = "FixedBytes" /\ param.size <= 32))
        => /\ status = "drawn"
           /\ token.t = param.t
           /\ token.v = CASE param.t = "Address" -> SubSeq(corpus[1], 13, 32)
                          [] param.t = "Bytes" -> corpus[1]
                          [] param.t = "Bool" -> (corpus[1][32] = 1)
                          [] param.t = "FixedBytes" ->
                                SubSeq(corpus[1], 33 - param.size, 32)
           /\ param.t = "FixedBytes" => Len(token.v) = param.size

C6_Witness ==
    /\ mode = "state" /\ corpus = <<Ramp>> /\ snapshot = corpus
    /\ param = Bool /\ status = "drawn" /\ token.v = FALSE

\* array lengths of a sampled value, at every nesting level
RECURSIVE ArrayLensBelow256(_, _)
ArrayLensBelow256(shape, tok) ==
    CASE shape.t = "Array" ->
            /\ Len(tok.v) >= 0 /\ Len(tok.v) < 256
            /\ \A j \in DOMAIN tok.v : ArrayLensBelow256(shape.param, tok.v[j])
      [] shape.t = "FixedArray" ->
            \A j \in DOMAIN tok.v : ArrayLensBelow256(shape.param, tok.v[j])
      [] shape.t = "Tuple" ->
            \A j \in DOMAIN tok.v \cap DOMAIN shape.params :
                ArrayLensBelow256(shape.params[j], tok.v[j])
      [] OTHER -> TRUE

RECURSIVE TupleConforms(_, _)
TupleConforms(shape, tok) ==
    CASE shape.t = "Tuple" ->
            /\ tok.t = "Tuple"
            /\ Len(tok.v) = Len(shape.params)
            /\ \A j \in DOMAIN shape.params :
                    /\ tok.v[j].t = shape.params[j].t
                    /\ TupleConforms(shape.params[j], tok.v[j])
      [] shape.t \in {"Array", "FixedArray"} ->
            \A j \in DOMAIN tok.v : TupleConforms(shape.param, tok.v[j])
      [] OTHER -> TRUE

\* C8: in both builds every draw for Tuple(shapes) has as many components as
\* declared shapes, the i-th of the variant of the i-th shape, nested ones too.
C8_TupleShape == status = "drawn" => TupleConforms(param, token)

C8_Witness ==
    /\ param = Tuple(<<Address, Array(Bool), Tuple(<<Bool, IntN(8)>>), FixedBytes(4)>>)
    /\ mode = "state" /\ status = "drawn"
    /\ Len(token.v[2].v) > 0

\* C9: a corpus-biased strategy built over L >= 1 words only ever fetches an
\* index below L, the fetch succeeds and returns the word that was there at
\* construction, however the corpus grew since; every sub-strategy uses L.
C9_CapturedLength ==
    (mode = "state" /\ Len(snapshot) >= 1 /\ status /= "construct_panic")
        => /\ StateLens(strategy) \subseteq {Len(snapshot)}
           /\ status = "draw_panic" => token.why \notin {"index", "unwrap"}
           /\ status = "drawn" =>
                \A f \in Fetches(token) :
                    /\ f.state_len = Len(snapshot)
                    /\ f.index >= 0 /\ f.index < Len(snapshot)
                    /\ f.value = snapshot[f.index + 1]

C9_Witness ==
    /\ mode = "state" /\ Len(snapshot) = 1 /\ Len(corpus) = 2
    /\ corpus[2] /= corpus[1]
    /\ param = Array(Tuple(<<Bool, UintN(16)>>)) /\ status = "drawn"
    /\ Cardinality(Fetches(token)) >= 1

\* C10: with supported widths and a non-empty corpus, fuzz_param_from_state
\* returns a strategy for every shape and every draw returns a value.
C10_Total ==
    (mode = "state" /\ Len(snapshot) >= 1 /\ ~HasUnsupportedWidth(param))
        => status \notin {"construct_panic", "draw_panic"}
====
